---- MODULE Spec2Model ----
(***************************************************************************)
(* Remote backup transport of clickhouse-backup: BackupDestination of      *)
(* package storage (general.go): RemoveOldBackups, RemoveBackup,           *)
(* BackupList, CompressedStreamDownload and CompressedStreamUpload.        *)
(*                                                                         *)
(* A Go string is a sequence of fragments.  A fragment is an atomic piece  *)
(* of text ("bk", "1", ".tar", "/", "metadata"): strings.HasPrefix,        *)
(* HasSuffix, TrimPrefix and Split work on the sequence exactly as the Go  *)
(* functions work on the bytes, because no fragment is part of another.    *)
(* A local path is a sequence of segments (one fragment each).             *)
(***************************************************************************)
EXTENDS Integers, Sequences, FiniteSets, TLC

VARIABLES
  bdPath,    \* bd.path, the configured remote path prefix (a string)
  remote,    \* the remote store: key -> [entries, size, date]
  clock,     \* source of the remote last-modified times
  faults,    \* how many more failures the environment may inject
  catalog,   \* what the last BackupList() call returned: [list, err]
  rm,        \* the running RemoveOldBackups call
  fs,        \* the local files: path -> inode
  idata,     \* the content of each inode
  dirs,      \* the local directories
  calls,     \* the calls the caller of the package still makes, in order
  results,   \* the calls that returned, with what they returned
  up,        \* the producer goroutine of the running CompressedStreamUpload
  pipe,      \* the nio.Pipe between the producer and PutFile
  put,       \* PutFile, the consumer of the pipe, and the return of the upload
  stack,     \* the running calls of CompressedStreamDownload, the innermost last
  dlRet,     \* what the innermost call just returned to its caller
  hist       \* what the downloads did to the local filesystem, in order

catVars == <<catalog, rm>>
localVars == <<fs, idata, dirs>>
upVars == <<up, pipe, put>>
dlVars == <<stack, dlRet, hist>>
vars == <<bdPath, remote, clock, faults, catalog, rm, fs, idata, dirs, calls, results,
          up, pipe, put, stack, dlRet, hist>>

----------------------------------------------------------------------------
(* Bounds of the model *)

\* the remote last-modified times of the initial objects are 1..MaxDate
MaxDate == 2
\* the initial remote store holds at most MaxKeys objects
MaxKeys == 3
\* RemoveOldBackups is called with keep in 0..MaxKeep
MaxKeep == 2
\* the environment injects at most MaxFaults failures in one run
MaxFaults == 1
\* a data file holds one of the contents 1..MaxData
MaxData == 1
\* the buffer of the pipe holds at most PipeCap items of the archive stream
PipeCap == 1

\* the deepest nesting of recursive downloads that is followed
MaxDepth == 4

----------------------------------------------------------------------------
(* Strings *)

Slash == "/"

HasPrefix(s, p) == Len(p) <= Len(s) /\ SubSeq(s, 1, Len(p)) = p

HasSuffix(s, x) == Len(x) <= Len(s) /\ SubSeq(s, Len(s) - Len(x) + 1, Len(s)) = x

TrimPrefix(s, p) == IF HasPrefix(s, p) THEN SubSeq(s, Len(p) + 1, Len(s)) ELSE s

\* strings.Split(s, "/"): the parts between the separators, at least one part
RECURSIVE Split(_)
Split(s) ==
  IF \A i \in 1..Len(s) : s[i] # Slash
  THEN <<s>>
  ELSE LET i == CHOOSE k \in 1..Len(s) :
                  s[k] = Slash /\ \A j \in 1..(k - 1) : s[j] # Slash
       IN <<SubSeq(s, 1, i - 1)>> \o Split(SubSeq(s, i + 1, Len(s)))

\* the parts joined again with "/"
RECURSIVE JoinParts(_)
JoinParts(ps) ==
  IF ps = <<>> THEN <<>>
  ELSE IF Len(ps) = 1 THEN ps[1]
  ELSE ps[1] \o <<Slash>> \o JoinParts(Tail(ps))

\* path.Clean on the strings of the model (no "." and ".." elements): empty
\* elements go, a leading "/" stays
Clean(s) ==
  LET parts == SelectSeq(Split(s), LAMBDA p : p # <<>>)
  IN (IF Len(s) > 0 /\ s[1] = Slash THEN <<Slash>> ELSE <<>>) \o JoinParts(parts)

\* path.Join(a, b): the non-empty elements joined with "/", then cleaned
PathJoin(a, b) ==
  IF a = <<>> THEN Clean(b)
  ELSE IF b = <<>> THEN Clean(a)
  ELSE Clean(a \o <<Slash>> \o b)

----------------------------------------------------------------------------
(* BackupList *)

\* the zero value of the local type ClickhouseBackup (a Go map yields it
\* for a missing key); the zero time.Time is date 0, real dates are >= 1
ZeroBackup ==
  [Metadata |-> FALSE, Shadow |-> FALSE, Tar |-> FALSE, Size |-> 0, Date |-> 0]

MapGet(files, n) == IF n \in DOMAIN files THEN files[n] ELSE ZeroBackup

MapPut(files, n, v) ==
  [x \in DOMAIN files \cup {n} |-> IF x = n THEN v ELSE files[x]]

\* the six recognised extensions of a single-archive object
IsArchiveName(p) ==
  \/ HasSuffix(p, <<".tar">>)
  \/ HasSuffix(p, <<".tar", ".lz4">>)
  \/ HasSuffix(p, <<".tar", ".bz2">>)
  \/ HasSuffix(p, <<".tar", ".gz">>)
  \/ HasSuffix(p, <<".tar", ".sz">>)
  \/ HasSuffix(p, <<".tar", ".xz">>)

\* the entry the second branch of the callback stores: Tar is not carried over
MarkerEntry(b, part) ==
  [Metadata |-> b.Metadata \/ part = <<"metadata">>,
   Shadow   |-> b.Shadow \/ part = <<"shadow">>,
   Tar      |-> FALSE,
   Date     |-> b.Date,
   Size     |-> b.Size]

\* the callback BackupList hands to Walk, applied to one object o
Visit(files, o, path) ==
  IF ~HasPrefix(o.name, path) THEN files
  ELSE LET key   == TrimPrefix(o.name, path)
           parts == Split(key)
           f1    == IF IsArchiveName(parts[1])
                    THEN MapPut(files, parts[1],
                                [Metadata |-> FALSE, Shadow |-> FALSE, Tar |-> TRUE,
                                 Date |-> o.date, Size |-> o.size])
                    ELSE files
       IN IF Len(parts) > 1
          THEN MapPut(f1, parts[1], MarkerEntry(MapGet(f1, parts[1]), parts[2]))
          ELSE f1

\* the map after Walk delivered the objects of the sequence objs in order
RECURSIVE WalkFiles(_, _, _)
WalkFiles(files, objs, path) ==
  IF objs = <<>> THEN files
  ELSE WalkFiles(Visit(files, Head(objs), path), Tail(objs), path)

\* the validity test of the result loop
IsValidBackup(e) == (e.Metadata /\ e.Shadow) \/ e.Tar

\* all the orders of the elements of a finite set
RECURSIVE Orders(_)
Orders(S) ==
  IF S = {} THEN {<<>>}
  ELSE UNION {{<<x>> \o t : t \in Orders(S \ {x})} : x \in S}

\* the lists BackupList can return for a map: the valid names, ascending by
\* date; the order of equal dates is the map's iteration order, which Go
\* leaves open
BackupLists(files) ==
  LET valid == {n \in DOMAIN files : IsValidBackup(files[n])}
  IN {[i \in 1..Len(ord) |->
         [Name |-> ord[i], Date |-> files[ord[i]].Date, Size |-> files[ord[i]].Size]] :
       ord \in {o \in Orders(valid) :
                  \A i, j \in 1..Len(o) :
                    i < j => files[o[i]].Date <= files[o[j]].Date}}

\* the store with the object o under the key k
MapPutObject(store, k, o) ==
  [x \in DOMAIN store \cup {k} |-> IF x = k THEN o ELSE store[x]]

\* RemoteStorage.Walk(prefix, fn): the objects whose key starts with prefix
WalkKeys(store, prefix) == {k \in DOMAIN store : HasPrefix(k, prefix)}

RemoteFile(store, k) == [name |-> k, size |-> store[k].size, date |-> store[k].date]

\* the sequences of RemoteFile a walk can deliver
Walks(store, prefix) ==
  {[i \in 1..Len(ord) |-> RemoteFile(store, ord[i])] : ord \in Orders(WalkKeys(store, prefix))}

----------------------------------------------------------------------------
(* RemoveOldBackups, RemoveBackup *)

\* GetBackupsToDelete(backups, keep): all but the keep most recent backups
\* of a list that is ascending by date
GetBackupsToDelete(backups, keep) ==
  IF Len(backups) > keep THEN SubSeq(backups, 1, Len(backups) - keep) ELSE <<>>

\* the test of the callback RemoveBackup hands to Walk
MatchesBackup(name, path, backupName) == HasPrefix(name, PathJoin(path, backupName))

\* the keys RemoveBackup collects, in the order the walk delivers them
RemoveObjects(store, path, backupName) ==
  Orders({k \in WalkKeys(store, path) : MatchesBackup(k, path, backupName)})

\* no call of the package is running
Idle == rm.pc \in {"idle", "done"} /\ put.pc \in {"idle", "done"} /\ stack = <<>>

UpIdle ==
  [pc |-> "idle", localPath |-> <<>>, diffFromPath |-> <<>>, i |-> 1, hardlinks |-> <<>>,
   ferr |-> "nil", closeArg |-> "nil", written |-> <<>>]

NoPipe == [buf |-> <<>>, closed |-> FALSE, err |-> "nil"]

PutIdle == [pc |-> "idle", key |-> <<>>, data |-> <<>>, name |-> <<>>, probe |-> "none"]

\* the calls of the caller
ListOp == [op |-> "list", name |-> <<>>, localPath |-> <<>>, diff |-> <<>>, keep |-> 0]

RemoveOp(keep) ==
  [op |-> "remove", name |-> <<>>, localPath |-> <<>>, diff |-> <<>>, keep |-> keep]

UploadOp(localPath, name, diff) ==
  [op |-> "upload", name |-> name, localPath |-> localPath, diff |-> diff, keep |-> 0]

DownloadOp(name, localPath) ==
  [op |-> "download", name |-> name, localPath |-> localPath, diff |-> <<>>, keep |-> 0]

RmIdle ==
  [pc |-> "idle", keep |-> 0, list |-> <<>>, todelete |-> <<>>, objects |-> <<>>,
   err |-> "nil", before |-> {}, deleted |-> {}]

\* RemoveOldBackups(keep) up to the start of its loop: the keep < 1 return,
\* BackupList() and its error, GetBackupsToDelete
RmCall(keep) ==
  /\ Idle
  /\ calls # <<>> /\ Head(calls).op = "remove" /\ Head(calls).keep = keep
  /\ calls' = Tail(calls)
  /\ \/ /\ keep < 1
        /\ rm' = [RmIdle EXCEPT !.pc = "done", !.keep = keep, !.before = DOMAIN remote]
        /\ UNCHANGED faults
     \/ /\ keep >= 1
        /\ faults > 0
        /\ faults' = faults - 1
        /\ rm' = [RmIdle EXCEPT !.pc = "done", !.keep = keep, !.err = "walk",
                                !.before = DOMAIN remote]
     \/ /\ keep >= 1
        /\ \E w \in Walks(remote, bdPath) :
             \E l \in BackupLists(WalkFiles(<<>>, w, bdPath)) :
               rm' = [RmIdle EXCEPT !.pc = "remove", !.keep = keep, !.list = l,
                                    !.todelete = GetBackupsToDelete(l, keep),
                                    !.before = DOMAIN remote]
        /\ UNCHANGED faults
  /\ UNCHANGED <<dlVars, bdPath, remote, clock, catalog, localVars, results, upVars>>

\* a walk that passes over a backup which an archive outside the backups to
\* delete names as its required backup
RmWalkSparesRequired ==
  /\ rm.pc = "remove"
  /\ rm.todelete # <<>>
  /\ \/ /\ faults > 0
        /\ faults' = faults - 1
        /\ rm' = [rm EXCEPT !.pc = "done", !.err = "walk"]
     \/ /\ \E objs \in RemoveObjects(remote, bdPath, Head(rm.todelete).Name) :
             LET spared ==
                   \E k \in DOMAIN remote :
                     /\ \A i \in 1..Len(rm.todelete) :
                          ~MatchesBackup(k, bdPath, rm.todelete[i].Name)
                     /\ \E i \in 1..Len(remote[k].entries) :
                          /\ remote[k].entries[i].data.kind = "meta"
                          /\ MatchesBackup(PathJoin(bdPath,
                                             remote[k].entries[i].data.rb \o <<".tar">>),
                                           bdPath, Head(rm.todelete).Name)
             IN rm' = [rm EXCEPT !.pc = "delete",
                                 !.objects = IF spared THEN <<>> ELSE objs]
        /\ UNCHANGED faults
  /\ UNCHANGED <<dlVars, bdPath, remote, clock, catalog, localVars, calls, results, upVars>>

\* RemoveBackup(name), the walk: it fails, or it collects the matching keys
RmWalk ==
  /\ rm.pc = "remove"
  /\ rm.todelete # <<>>
  /\ \/ /\ faults > 0
        /\ faults' = faults - 1
        /\ rm' = [rm EXCEPT !.pc = "done", !.err = "walk"]
     \/ /\ \E objs \in RemoveObjects(remote, bdPath, Head(rm.todelete).Name) :
             rm' = [rm EXCEPT !.pc = "delete", !.objects = objs]
        /\ UNCHANGED faults
  /\ UNCHANGED <<dlVars, bdPath, remote, clock, catalog, localVars, calls, results, upVars>>

\* the delete loop where a failed DeleteFile is noted and the loop goes on
\* with the next key
RmDeleteGoesOn ==
  /\ rm.pc = "delete"
  /\ rm.objects # <<>>
  /\ \/ /\ faults > 0
        /\ faults' = faults - 1
        /\ rm' = [rm EXCEPT !.err = "delete", !.objects = Tail(rm.objects)]
        /\ UNCHANGED remote
     \/ /\ remote' = [k \in DOMAIN remote \ {Head(rm.objects)} |-> remote[k]]
        /\ rm' = [rm EXCEPT !.objects = Tail(rm.objects),
                            !.deleted = rm.deleted \cup {Head(rm.objects)}]
        /\ UNCHANGED faults
  /\ UNCHANGED <<dlVars, bdPath, clock, catalog, localVars, calls, results, upVars>>

\* RemoveBackup(name), one round of the delete loop: DeleteFile fails and the
\* error goes up through RemoveOldBackups, or the key is gone
RmDelete ==
  /\ rm.pc = "delete"
  /\ rm.objects # <<>>
  /\ \/ /\ faults > 0
        /\ faults' = faults - 1
        /\ rm' = [rm EXCEPT !.pc = "done", !.err = "delete"]
        /\ UNCHANGED remote
     \/ /\ remote' = [k \in DOMAIN remote \ {Head(rm.objects)} |-> remote[k]]
        /\ rm' = [rm EXCEPT !.objects = Tail(rm.objects),
                            !.deleted = rm.deleted \cup {Head(rm.objects)}]
        /\ UNCHANGED faults
  /\ UNCHANGED <<dlVars, bdPath, clock, catalog, localVars, calls, results, upVars>>

\* RemoveBackup returns nil: the loop of RemoveOldBackups goes on
RmNext ==
  /\ rm.pc = "delete"
  /\ rm.objects = <<>>
  /\ rm' = [rm EXCEPT !.pc = "remove", !.todelete = Tail(rm.todelete)]
  /\ UNCHANGED <<dlVars, bdPath, remote, clock, faults, catalog, localVars, calls, results, upVars>>

\* the loop of RemoveOldBackups is over: return nil
RmReturn ==
  /\ rm.pc = "remove"
  /\ rm.todelete = <<>>
  /\ rm' = [rm EXCEPT !.pc = "done"]
  /\ UNCHANGED <<dlVars, bdPath, remote, clock, faults, catalog, localVars, calls, results, upVars>>

\* BackupList(): the walk fails, or the map is filled and the list built
ListCall ==
  /\ Idle
  /\ calls # <<>> /\ Head(calls).op = "list"
  /\ calls' = Tail(calls)
  /\ \/ /\ faults > 0
        /\ faults' = faults - 1
        /\ catalog' = [list |-> <<>>, err |-> "walk", keys |-> {}, walk |-> <<>>]
     \/ /\ \E w \in Walks(remote, bdPath) :
             \E l \in BackupLists(WalkFiles(<<>>, w, bdPath)) :
               catalog' = [list |-> l, err |-> "nil",
                           keys |-> {w[i].name : i \in 1..Len(w)},
                           walk |-> [i \in 1..Len(w) |-> w[i].name]]
        /\ UNCHANGED faults
  /\ UNCHANGED <<dlVars, bdPath, remote, clock, rm, localVars, results, upVars>>

----------------------------------------------------------------------------
(* The local filesystem *)

\* the content of a file: raw bytes, the JSON object "{}", or a marshalled
\* MetaFile
Raw(n) == [kind |-> "raw", bytes |-> n, rb |-> <<>>, hl |-> <<>>]

JsonObj == [kind |-> "obj", bytes |-> 0, rb |-> <<>>, hl |-> <<>>]

\* a file that holds the JSON object {"hardlinks": ["a"]}
JsonLinks == [kind |-> "obj", bytes |-> 0, rb |-> <<>>, hl |-> <<<<"a">>>>]

\* json.MarshalIndent(&metafile, "", "\t")
Marshal(mf) == [kind |-> "meta", bytes |-> 0, rb |-> mf.RequiredBackup, hl |-> mf.Hardlinks]

MetaFileName == <<"meta.json">>

\* the relative paths a backup directory can hold, in the lexical order in
\* which filepath.Walk visits them
WalkOrder == << <<"a">>, <<"d", "b">>, <<"meta.json">> >>

RelPaths == {WalkOrder[i] : i \in 1..Len(WalkOrder)}

\* a relative path as a string: its segments joined with "/"
RelStr(rel) == JoinParts([i \in 1..Len(rel) |-> <<rel[i]>>])

\* the regular files filepath.Walk(root, fn) visits, in its order
FilesUnder(files, root) ==
  SelectSeq(WalkOrder, LAMBDA rel : (root \o rel) \in DOMAIN files)

\* the path itself, where its last element is asked for
BaseWholePath(p) == p

\* filepath.Base of a local path
Base(p) == IF p = <<>> THEN <<>> ELSE <<p[Len(p)]>>

\* filepath.Dir of a local path
Dir(p) == IF p = <<>> THEN <<>> ELSE SubSeq(p, 1, Len(p) - 1)

\* every proper prefix of a path
Parents(p) == {SubSeq(p, 1, n) : n \in 1..(Len(p) - 1)}

\* a comparison of the bytes, where the identity is asked for
SameFileByContent(i1, i2) == idata[i1] = idata[i2]

\* os.SameFile: the same inode
SameFile(i1, i2) == i1 = i2

\* the files below root: relative path (as a string) -> content
Tree(files, data, root) ==
  [n \in {RelStr(rel) : rel \in {r \in RelPaths : (root \o r) \in DOMAIN files}} |->
     data[files[root \o (CHOOSE r \in RelPaths : RelStr(r) = n)]]]

----------------------------------------------------------------------------
(* CompressedStreamUpload *)

\* getExtension(bd.compressionFormat) for the format "tar", with its dot
Ext == <<".tar">>

\* path.Join(bd.path, fmt.Sprintf("%s.%s", remotePath, getExtension(...)))
ArchiveName(path, remotePath) == PathJoin(path, remotePath \o Ext)

\* an item of the archive stream: a tar entry, or the trailer of the encoder
FileItem(name, data) == [t |-> "file", name |-> name, data |-> data]

Trailer == [t |-> "end", name |-> <<>>, data |-> Raw(0)]

\* the tar entries of a stream
Entries(items) == SelectSeq(items, LAMBDA it : it.t = "file")

\* the caller's part of the upload, up to the go statement: the probe of the
\* archive key, the check of diffFromPath, the pipe
UploadBegin ==
  /\ Idle
  /\ calls # <<>> /\ Head(calls).op = "upload"
  /\ calls' = Tail(calls)
  /\ LET c == Head(calls)
     IN \/ /\ faults > 0
           /\ faults' = faults - 1
           /\ results' = Append(results, [op |-> "upload", name |-> c.name, err |-> "getfile",
                                          ferr |-> "nil", hardlinks |-> <<>>,
                                          localPath |-> c.localPath])
           /\ UNCHANGED upVars
        \/ /\ c.diff # <<>>
           /\ c.diff \notin dirs
           /\ results' = Append(results, [op |-> "upload", name |-> c.name, err |-> "stat",
                                          ferr |-> "nil", hardlinks |-> <<>>,
                                          localPath |-> c.localPath])
           /\ UNCHANGED <<faults, upVars>>
        \/ /\ c.diff # <<>> => c.diff \in dirs
           /\ up' = [UpIdle EXCEPT !.pc = "create", !.localPath = c.localPath,
                                   !.diffFromPath = c.diff]
           /\ pipe' = NoPipe
           /\ put' = [pc |-> "read", key |-> ArchiveName(bdPath, c.name), data |-> <<>>,
                      name |-> c.name,
                      \* GetFile returned nil, or ErrNotFound: both go on
                      probe |-> IF ArchiveName(bdPath, c.name) \in DOMAIN remote
                                THEN "found" ELSE "notfound"]
           /\ UNCHANGED <<faults, results>>
  /\ UNCHANGED <<dlVars, bdPath, remote, clock, catVars, localVars>>

\* a buffer to which a write goes through at once whatever it holds
HasRoomAlways(n) == TRUE

\* buffer.New(BufferSize): a write into the buffer waits while n items fill it
HasRoom(n) == n < PipeCap

\* the producer: defer w.CloseWithError(ferr), whose argument is evaluated
\* now, and z.Create(w)
ProdCreate ==
  /\ up.pc = "create"
  /\ \/ /\ faults > 0
        /\ faults' = faults - 1
        /\ up' = [up EXCEPT !.closeArg = up.ferr, !.ferr = "create", !.pc = "wclose"]
     \/ /\ up' = [up EXCEPT !.closeArg = up.ferr, !.pc = "walk"]
        /\ UNCHANGED faults
  /\ UNCHANGED <<dlVars, bdPath, remote, clock, catVars, localVars, calls, results, pipe, put>>

\* the producer: the walk function on the next regular file
ProdVisit ==
  /\ up.pc = "walk"
  /\ up.i <= Len(FilesUnder(fs, up.localPath))
  /\ LET rel      == FilesUnder(fs, up.localPath)[up.i]
         filePath == up.localPath \o rel
         diffFile == up.diffFromPath \o rel
     IN \/ \* the walk reports an error, or os.Open fails
           /\ faults > 0
           /\ faults' = faults - 1
           /\ up' = [up EXCEPT !.ferr = "walk", !.pc = "zclose"]
           /\ UNCHANGED pipe
        \/ /\ up.diffFromPath # <<>>
           /\ diffFile \in DOMAIN fs
           /\ SameFile(fs[filePath], fs[diffFile])
           /\ up' = [up EXCEPT !.hardlinks = Append(up.hardlinks, RelStr(rel)),
                               !.i = up.i + 1]
           /\ UNCHANGED <<faults, pipe>>
        \/ /\ ~(up.diffFromPath # <<>> /\ diffFile \in DOMAIN fs
                /\ SameFile(fs[filePath], fs[diffFile]))
           /\ \/ \* z.Write writes the entry into the pipe, when there is room
                 /\ HasRoom(Len(pipe.buf))
                 /\ pipe' = [pipe EXCEPT !.buf = Append(pipe.buf,
                                           FileItem(RelStr(rel), idata[fs[filePath]]))]
                 /\ up' = [up EXCEPT !.i = up.i + 1,
                                     !.written = Append(up.written,
                                           FileItem(RelStr(rel), idata[fs[filePath]]))]
                 /\ UNCHANGED faults
              \/ \* z.Write fails
                 /\ faults > 0
                 /\ faults' = faults - 1
                 /\ up' = [up EXCEPT !.ferr = "write", !.pc = "zclose"]
                 /\ UNCHANGED pipe
  /\ UNCHANGED <<dlVars, bdPath, remote, clock, catVars, localVars, calls, results, put>>

\* the producer after the walk: the MetaFile entry, if a hardlink was found
ProdMeta ==
  /\ up.pc = "walk"
  /\ up.i > Len(FilesUnder(fs, up.localPath))
  /\ \/ /\ Len(up.hardlinks) > 0
        /\ \/ \* marshalling, the temporary file or z.Write fails
              /\ faults > 0
              /\ faults' = faults - 1
              /\ up' = [up EXCEPT !.ferr = "meta", !.pc = "zclose"]
              /\ UNCHANGED pipe
           \/ /\ HasRoom(Len(pipe.buf))
              /\ LET item == FileItem(MetaFileName,
                               Marshal([RequiredBackup |-> Base(up.diffFromPath),
                                        Hardlinks |-> up.hardlinks]))
                 IN /\ pipe' = [pipe EXCEPT !.buf = Append(pipe.buf, item)]
                    /\ up' = [up EXCEPT !.pc = "zclose",
                                        !.written = Append(up.written, item)]
              /\ UNCHANGED faults
     \/ /\ Len(up.hardlinks) = 0
        /\ up' = [up EXCEPT !.pc = "zclose"]
        /\ UNCHANGED <<faults, pipe>>
  /\ UNCHANGED <<dlVars, bdPath, remote, clock, catVars, localVars, calls, results, put>>

\* a producer that closes the write side of the pipe first: the trailer of
\* the encoder finds the pipe closed and is lost
ProdZCloseAfterPipe ==
  /\ up.pc = "zclose"
  /\ pipe' = [pipe EXCEPT !.closed = TRUE, !.err = up.closeArg]
  /\ up' = [up EXCEPT !.pc = "wclose"]
  /\ UNCHANGED <<dlVars, bdPath, remote, clock, faults, catVars, localVars, calls, results, put>>

\* the producer: the deferred z.Close() flushes the trailer of the encoder
\* (a tar writer that failed in Write writes no trailer)
ProdZClose ==
  /\ up.pc = "zclose"
  /\ \/ /\ up.ferr = "write"
        /\ up' = [up EXCEPT !.pc = "wclose"]
        /\ UNCHANGED pipe
     \/ /\ up.ferr # "write"
        /\ HasRoom(Len(pipe.buf))
        /\ pipe' = [pipe EXCEPT !.buf = Append(pipe.buf, Trailer)]
        /\ up' = [up EXCEPT !.pc = "wclose", !.written = Append(up.written, Trailer)]
  /\ UNCHANGED <<dlVars, bdPath, remote, clock, faults, catVars, localVars, calls, results, put>>

\* the producer: the deferred w.CloseWithError runs with the argument that
\* was evaluated at the defer statement
ProdExit ==
  /\ up.pc = "wclose"
  /\ pipe' = [pipe EXCEPT !.closed = TRUE, !.err = up.closeArg]
  /\ up' = [up EXCEPT !.pc = "done"]
  /\ UNCHANGED <<dlVars, bdPath, remote, clock, faults, catVars, localVars, calls, results, put>>

\* PutFile reads the next item of the stream
PutRead ==
  /\ put.pc = "read"
  /\ pipe.buf # <<>>
  /\ put' = [put EXCEPT !.data = Append(put.data, Head(pipe.buf))]
  /\ pipe' = [pipe EXCEPT !.buf = Tail(pipe.buf)]
  /\ UNCHANGED <<dlVars, bdPath, remote, clock, faults, catVars, localVars, calls, results, up>>

\* what CompressedStreamUpload returns to its caller
UploadResult(err) ==
  [op |-> "upload", name |-> put.name, err |-> err, ferr |-> up.ferr,
   hardlinks |-> up.hardlinks, localPath |-> up.localPath]

\* PutFile reaches the end of the stream: a clean end stores the object and
\* the upload returns nil, an error of the pipe is returned
PutEnd ==
  /\ put.pc = "read"
  /\ pipe.buf = <<>>
  /\ pipe.closed
  /\ \/ /\ pipe.err = "nil"
        /\ remote' = MapPutObject(remote, put.key,
                       [entries |-> Entries(put.data), size |-> Len(put.data),
                        date |-> clock + 1])
        /\ clock' = clock + 1
        /\ results' = Append(results, UploadResult("nil"))
     \/ /\ pipe.err # "nil"
        /\ results' = Append(results, UploadResult(pipe.err))
        /\ UNCHANGED <<remote, clock>>
  /\ put' = [put EXCEPT !.pc = "done"]
  /\ UNCHANGED <<dlVars, bdPath, faults, catVars, localVars, calls, up, pipe>>

\* PutFile fails in the transport: nothing is stored, the upload returns
\* the error and leaves the producer where it is
PutFail ==
  /\ put.pc = "read"
  /\ faults > 0
  /\ faults' = faults - 1
  /\ results' = Append(results, UploadResult("put"))
  /\ put' = [put EXCEPT !.pc = "done"]
  /\ UNCHANGED <<dlVars, bdPath, remote, clock, catVars, localVars, calls, up, pipe>>

UploadSteps ==
  \/ UploadBegin
  \/ ProdCreate
  \/ ProdVisit
  \/ ProdMeta
  \/ ProdZClose
  \/ ProdExit
  \/ PutRead
  \/ PutEnd
  \/ PutFail

----------------------------------------------------------------------------
(* CompressedStreamDownload *)

\* the segments of a relative path given as a string (every segment of a
\* local path is one fragment)
Segs(str) ==
  LET ps == SelectSeq(Split(str), LAMBDA q : q # <<>>)
  IN [i \in 1..Len(ps) |-> ps[i][1]]

\* the path a cleaned join arrives at from the absolute path base along the
\* segments segs: ".." leaves a directory (the root has none to leave to)
\* and "." stays
RECURSIVE Resolve(_, _)
Resolve(base, segs) ==
  IF segs = <<>> THEN base
  ELSE IF Head(segs) = ".." THEN Resolve(Dir(base), Tail(segs))
  ELSE IF Head(segs) = "." THEN Resolve(base, Tail(segs))
  ELSE Resolve(Append(base, Head(segs)), Tail(segs))

\* filepath.Join(base, str): the elements joined, then cleaned
FilepathJoin(base, str) == Resolve(base, Segs(str))

NoMetaFile == [RequiredBackup |-> <<>>, Hardlinks |-> <<>>]

\* json.Unmarshal(b, &metafile): bytes that are no JSON fail, a marshalled
\* MetaFile sets both fields, any other JSON object sets the fields it has
Unmarshal(data, mf) ==
  IF data.kind = "raw" THEN [ok |-> FALSE, mf |-> mf]
  ELSE IF data.kind = "meta"
  THEN [ok |-> TRUE, mf |-> [RequiredBackup |-> data.rb, Hardlinks |-> data.hl]]
  ELSE [ok |-> TRUE,
        mf |-> [RequiredBackup |-> IF data.rb # <<>> THEN data.rb ELSE mf.RequiredBackup,
                Hardlinks      |-> IF data.hl # <<>> THEN data.hl ELSE mf.Hardlinks]]

\* os.MkdirAll(dir): the directory and its parents
MkdirAll(ds, dir) == ds \cup {dir} \cup Parents(dir)

\* if _, err := os.Stat(extractDir); os.IsNotExist(err) { os.MkdirAll(extractDir) }
EnsureDir(dir) ==
  IF dir \notin dirs /\ dir \notin DOMAIN fs /\ \A q \in Parents(dir) : q \notin DOMAIN fs
  THEN MkdirAll(dirs, dir)
  ELSE dirs

\* a new inode
NewIno == IF DOMAIN idata = {} THEN 1 ELSE 1 + (CHOOSE m \in DOMAIN idata : \A i \in DOMAIN idata : i <= m)

\* os.Create(path) fails on a directory and below a file
CanCreate(path) == path \notin dirs /\ \A q \in Parents(path) : q \notin DOMAIN fs

Frame(remotePath, localPath) ==
  [remotePath |-> remotePath, localPath |-> localPath, pc |-> "open", entries |-> <<>>,
   j |-> 1, metafile |-> NoMetaFile, k |-> 1, reader |-> "none", fill |-> 0]

Top == stack[Len(stack)]

SetTop(f) == [stack EXCEPT ![Len(stack)] = f]

Event(ev, at, path, src, err) ==
  [ev |-> ev, at |-> at, path |-> path, src |-> src, err |-> err]

\* the innermost call returns err, after the events evs: to the call that
\* waits for it, or to the caller of the package
DlReturns(err, evs) ==
  /\ stack' = SubSeq(stack, 1, Len(stack) - 1)
  /\ hist' = hist \o evs \o <<Event("ret", Top.localPath, <<>>, <<>>, err)>>
  /\ IF Len(stack) = 1
     THEN /\ dlRet' = "none"
          /\ results' = Append(results,
               [op |-> "download", name |-> Top.remotePath, err |-> err, ferr |-> "nil",
                hardlinks |-> Top.metafile.Hardlinks, localPath |-> Top.localPath])
     ELSE /\ dlRet' = err
          /\ UNCHANGED results

DownloadBegin ==
  /\ Idle
  /\ calls # <<>> /\ Head(calls).op = "download"
  /\ calls' = Tail(calls)
  /\ stack' = <<Frame(Head(calls).name, Head(calls).localPath)>>
  /\ UNCHANGED <<bdPath, remote, clock, faults, catVars, localVars, results, upVars,
                 dlRet, hist>>

\* Connect, GetFile, GetFileReader, z.Open and MkdirAll(localPath)
DlOpen ==
  /\ stack # <<>> /\ Top.pc = "open"
  /\ LET archiveName == ArchiveName(bdPath, Top.remotePath)
     IN \/ \* Connect, GetFileReader, z.Open or MkdirAll fails
           /\ faults > 0
           /\ faults' = faults - 1
           /\ DlReturns("other", <<>>)
           /\ UNCHANGED dirs
        \/ \* GetFile: the archive is not there
           /\ archiveName \notin DOMAIN remote
           /\ DlReturns("other", <<Event("open", Top.localPath, <<>>, archiveName, "other")>>)
           /\ UNCHANGED <<faults, dirs>>
        \/ /\ archiveName \in DOMAIN remote
           /\ stack' = SetTop([Top EXCEPT !.pc = "read", !.reader = "open",
                                          !.entries = remote[archiveName].entries])
           /\ dirs' = MkdirAll(dirs, Top.localPath)
           /\ hist' = Append(hist, Event("open", Top.localPath, <<>>, archiveName, "nil"))
           /\ UNCHANGED <<faults, results, dlRet>>
  /\ UNCHANGED <<bdPath, remote, clock, catVars, fs, idata, calls, upVars>>

\* the items of the read buffer of a call: copied from the stream and not
\* yet read by the decoder
Buffered(f) == f.fill - (f.j - 1)

\* nio.NewReader(reader, buf): the copy of the next item of the stream into
\* the buffer, when there is room
DlFill ==
  /\ stack # <<>> /\ Top.pc = "read"
  /\ Top.fill < Len(Top.entries)
  /\ HasRoom(Buffered(Top))
  /\ stack' = SetTop([Top EXCEPT !.fill = Top.fill + 1])
  /\ UNCHANGED <<bdPath, remote, clock, faults, catVars, localVars, calls, results,
                 upVars, dlRet, hist>>

\* a test that knows the MetaFile entry only at the end of the archive
IsMetaEntryOnlyLast(entries, j) == entries[j].name = MetaFileName /\ j = Len(entries)

\* header.Name == MetaFileName
IsMetaEntry(entries, j) == entries[j].name = MetaFileName

\* one round of the loop over the entries of the archive
DlEntry ==
  /\ stack # <<>> /\ Top.pc = "read"
  /\ Top.j <= Top.fill
  /\ LET ent         == Top.entries[Top.j]
         extractFile == FilepathJoin(Top.localPath, ent.name)
     IN \/ \* z.Read, the header, os.Create or io.Copy fails
           /\ faults > 0
           /\ faults' = faults - 1
           /\ DlReturns("other", <<>>)
           /\ UNCHANGED localVars
        \/ /\ IsMetaEntry(Top.entries, Top.j)
           /\ LET u == Unmarshal(ent.data, Top.metafile)
              IN IF u.ok
                 THEN /\ stack' = SetTop([Top EXCEPT !.metafile = u.mf, !.j = Top.j + 1])
                      /\ UNCHANGED <<results, dlRet, hist>>
                 ELSE DlReturns("other", <<>>)
           /\ UNCHANGED <<faults, localVars>>
        \/ /\ ~IsMetaEntry(Top.entries, Top.j)
           /\ IF CanCreate(extractFile)
              THEN /\ dirs' = EnsureDir(Dir(extractFile))
                   /\ IF extractFile \in DOMAIN fs
                      THEN /\ idata' = [idata EXCEPT ![fs[extractFile]] = ent.data]
                           /\ UNCHANGED fs
                      ELSE /\ fs' = [q \in DOMAIN fs \cup {extractFile} |->
                                       IF q = extractFile THEN NewIno ELSE fs[q]]
                           /\ idata' = [i \in DOMAIN idata \cup {NewIno} |->
                                          IF i = NewIno THEN ent.data ELSE idata[i]]
                   /\ stack' = SetTop([Top EXCEPT !.j = Top.j + 1])
                   /\ hist' = Append(hist, Event("create", Top.localPath, extractFile,
                                                 <<>>, "nil"))
                   /\ UNCHANGED <<results, dlRet>>
              ELSE /\ DlReturns("other", <<>>)
                   /\ UNCHANGED localVars
           /\ UNCHANGED faults
  /\ UNCHANGED <<bdPath, remote, clock, catVars, calls, upVars>>

\* the loop over the entries followed by the links at once
AfterEntriesNoParent(mf) == "link"

\* the loop over the entries followed by a recursive call whatever the
\* MetaFile holds
AfterEntriesAlwaysParent(mf) == "parent"

\* what follows the loop over the entries: the download of the required
\* backup, if the MetaFile names one
AfterEntries(mf) == IF mf.RequiredBackup # <<>> THEN "parent" ELSE "link"

\* the end of the archive: the recursive call into the sibling directory
DlEOF ==
  /\ stack # <<>> /\ Top.pc = "read"
  /\ Top.j > Len(Top.entries)
  /\ IF AfterEntries(Top.metafile) = "parent"
     THEN /\ Len(stack) < MaxDepth
          /\ stack' = Append(SetTop([Top EXCEPT !.pc = "wait"]),
                             Frame(Top.metafile.RequiredBackup,
                                   FilepathJoin(Dir(Top.localPath), Top.metafile.RequiredBackup)))
     ELSE stack' = SetTop([Top EXCEPT !.pc = "link"])
  /\ UNCHANGED <<bdPath, remote, clock, faults, catVars, localVars, calls, results,
                 upVars, dlRet, hist>>

\* the test of what the recursive call returned: err != nil && !os.IsExist(err)
ParentFailed(err) == err # "nil" /\ err # "exist"

\* the recursive call returned
DlAfterParent ==
  /\ stack # <<>> /\ Top.pc = "wait"
  /\ dlRet # "none"
  /\ IF ParentFailed(dlRet)
     THEN DlReturns("other", <<>>)
     ELSE /\ stack' = SetTop([Top EXCEPT !.pc = "link"])
          /\ dlRet' = "none"
          /\ UNCHANGED <<results, hist>>
  /\ UNCHANGED <<bdPath, remote, clock, faults, catVars, localVars, calls, upVars>>

\* what os.Link(oldname, newname) returns where a missing oldname is passed
\* over
LinkErrorSkipsMissing(oldname, newname) ==
  IF oldname \notin DOMAIN fs THEN "nil"
  ELSE IF newname \in DOMAIN fs \/ newname \in dirs THEN "exist"
  ELSE IF \E q \in Parents(newname) : q \in DOMAIN fs THEN "other"
  ELSE "nil"

\* what os.Link(oldname, newname) returns
LinkError(oldname, newname) ==
  IF oldname \notin DOMAIN fs THEN "other"
  ELSE IF newname \in DOMAIN fs \/ newname \in dirs THEN "exist"
  ELSE IF \E q \in Parents(newname) : q \in DOMAIN fs THEN "other"
  ELSE "nil"

\* the filesystem after a link of newname to the file of oldname
Linked(files, oldname, newname) ==
  IF oldname \in DOMAIN files
  THEN [q \in DOMAIN files \cup {newname} |-> IF q = newname THEN files[oldname] ELSE files[q]]
  ELSE files

\* one round of the loop over metafile.Hardlinks
DlLink ==
  /\ stack # <<>> /\ Top.pc = "link"
  /\ Top.k <= Len(Top.metafile.Hardlinks)
  /\ LET hardlink == Top.metafile.Hardlinks[Top.k]
         newname  == FilepathJoin(Top.localPath, hardlink)
         oldname  == FilepathJoin(FilepathJoin(Dir(Top.localPath),
                                              Top.metafile.RequiredBackup), hardlink)
         err      == LinkError(oldname, newname)
         ev       == Event("link", Top.localPath, newname, oldname, err)
     IN /\ dirs' = EnsureDir(Dir(newname))
        /\ IF err = "nil"
           THEN /\ fs' = Linked(fs, oldname, newname)
                /\ stack' = SetTop([Top EXCEPT !.k = Top.k + 1])
                /\ hist' = Append(hist, ev)
                /\ UNCHANGED <<results, dlRet>>
           ELSE /\ DlReturns(err, <<ev>>)
                /\ UNCHANGED fs
  /\ UNCHANGED <<bdPath, remote, clock, faults, catVars, idata, calls, upVars>>

\* the loop over the hardlinks is over: return nil
DlDone ==
  /\ stack # <<>> /\ Top.pc = "link"
  /\ Top.k > Len(Top.metafile.Hardlinks)
  /\ DlReturns("nil", <<>>)
  /\ UNCHANGED <<bdPath, remote, clock, faults, catVars, localVars, calls, upVars>>

DownloadSteps ==
  \/ DownloadBegin
  \/ DlOpen
  \/ DlFill
  \/ DlEntry
  \/ DlEOF
  \/ DlAfterParent
  \/ DlLink
  \/ DlDone

----------------------------------------------------------------------------
(* The catalog and retention on an arbitrary remote store *)

\* the configured prefixes: none, with and without a trailing separator
Paths == {<<>>, <<"p">>, <<"p", Slash>>}

\* object names below the prefix: single archives, a directory layout, and
\* a name with an archive extension that has objects below it
CatalogNames ==
  {<<"bk", ".tar">>,
   <<"bk", ".tar", ".gz">>,
   <<"bk", "2", ".tar">>,
   <<"bk", "1", Slash, "metadata", Slash, "x">>,
   <<"bk", "1", Slash, "shadow", Slash, "y">>,
   <<"bk", ".tar", Slash, "metadata", Slash, "x">>,
   <<"bk", ".tar", Slash, "shadow", Slash, "y">>}

NoCatalog == [list |-> <<>>, err |-> "none", keys |-> {}, walk |-> <<>>]

InitCatalog ==
  /\ bdPath \in Paths
  /\ \E names \in SUBSET CatalogNames :
       /\ Cardinality(names) <= MaxKeys
       /\ remote \in [{PathJoin(bdPath, n) : n \in names} ->
                        [entries : {<<>>}, size : {1}, date : 1..MaxDate]]
  /\ clock = MaxDate
  /\ faults = MaxFaults
  /\ catalog = NoCatalog
  /\ rm = RmIdle
  /\ fs = <<>> /\ idata = <<>> /\ dirs = {}
  /\ \E keep \in 0..MaxKeep : calls = <<ListOp, RemoveOp(keep), ListOp>>
  /\ results = <<>>
  /\ up = UpIdle /\ pipe = NoPipe /\ put = PutIdle
  /\ stack = <<>> /\ dlRet = "none" /\ hist = <<>>

NextCatalog ==
  \/ ListCall
  \/ \E keep \in 0..MaxKeep : RmCall(keep)
  \/ RmWalk
  \/ RmDelete
  \/ RmNext
  \/ RmReturn

SpecCatalog == InitCatalog /\ [][NextCatalog]_vars

----------------------------------------------------------------------------
(* The catalog of a store with one archive and two directory backups *)

\* the keys bk1.tar, bk2/metadata/x, bk2/shadow/y and bk3/metadata/x
ScenarioKeys ==
  {<<"bk", "1", ".tar">>,
   <<"bk", "2", Slash, "metadata", Slash, "x">>,
   <<"bk", "2", Slash, "shadow", Slash, "y">>,
   <<"bk", "3", Slash, "metadata", Slash, "x">>}

\* the store holds these keys below the empty path, and the catalog is
\* listed
InitScenario ==
  /\ bdPath = <<>>
  /\ remote \in [ScenarioKeys -> [entries : {<<>>}, size : {1}, date : 1..MaxDate]]
  /\ clock = MaxDate
  /\ faults = MaxFaults
  /\ catalog = NoCatalog
  /\ rm = RmIdle
  /\ fs = <<>> /\ idata = <<>> /\ dirs = {}
  /\ calls = <<ListOp>>
  /\ results = <<>>
  /\ up = UpIdle /\ pipe = NoPipe /\ put = PutIdle
  /\ stack = <<>> /\ dlRet = "none" /\ hist = <<>>

NextScenario == ListCall

SpecScenario == InitScenario /\ [][NextScenario]_vars

----------------------------------------------------------------------------
(* Uploads of local backup directories *)

\* the local backup directories of the source side
SrcA == <<"src", "A">>

SrcB == <<"src", "B">>

\* what a relative path holds in an initial tree: nothing, a hard link to
\* the file of the other tree, or a file of its own
NoFile == [kind |-> "none", bytes |-> 0, rb |-> <<>>, hl |-> <<>>]

LinkFile == [kind |-> "link", bytes |-> 0, rb |-> <<>>, hl |-> <<>>]

Contents(rel) ==
  IF RelStr(rel) = MetaFileName THEN {Raw(1), JsonObj, JsonLinks} ELSE {Raw(n) : n \in 1..MaxData}

AllContents == UNION {Contents(rel) : rel \in RelPaths}

IndexOf(rel) == CHOOSE i \in 1..Len(WalkOrder) : WalkOrder[i] = rel

\* the directory A holds files of its own; a file of B is a hard link to the
\* file of A at the same relative path (a part that did not change) or a
\* file of its own
InitTrees ==
  \E a \in [RelPaths -> AllContents \cup {NoFile}] :
    \E b \in [RelPaths -> AllContents \cup {NoFile, LinkFile}] :
      /\ \A rel \in RelPaths :
           /\ a[rel] \in Contents(rel) \cup {NoFile}
           /\ b[rel] \in Contents(rel) \cup {NoFile, LinkFile}
           /\ b[rel] = LinkFile => a[rel] # NoFile
      /\ LET inA == {rel \in RelPaths : a[rel] # NoFile}
             inB == {rel \in RelPaths : b[rel] # NoFile}
             inoB(rel) == IF b[rel] = LinkFile THEN IndexOf(rel)
                          ELSE Len(WalkOrder) + IndexOf(rel)
         IN /\ fs = [p \in {SrcA \o rel : rel \in inA} \cup {SrcB \o rel : rel \in inB} |->
                       IF SubSeq(p, 1, 2) = SrcA
                       THEN IndexOf(SubSeq(p, 3, Len(p)))
                       ELSE inoB(SubSeq(p, 3, Len(p)))]
            /\ idata = [i \in {IndexOf(rel) : rel \in inA} \cup
                               {Len(WalkOrder) + IndexOf(rel) :
                                  rel \in {r \in inB : b[r] # LinkFile}} |->
                          IF i <= Len(WalkOrder) THEN a[WalkOrder[i]]
                          ELSE b[WalkOrder[i - Len(WalkOrder)]]]
            /\ dirs = {<<"src">>, SrcA, SrcB} \cup
                      UNION {Parents(SrcA \o rel) : rel \in inA} \cup
                      UNION {Parents(SrcB \o rel) : rel \in inB}

\* B is uploaded as an increment of A, then the catalog is listed
InitUpload ==
  /\ InitTrees
  /\ bdPath = <<>>
  /\ remote = <<>>
  /\ clock = 0
  /\ faults = MaxFaults
  /\ catalog = NoCatalog
  /\ rm = RmIdle
  /\ calls = <<UploadOp(SrcB, <<"B">>, SrcA), ListOp>>
  /\ results = <<>>
  /\ up = UpIdle /\ pipe = NoPipe /\ put = PutIdle
  /\ stack = <<>> /\ dlRet = "none" /\ hist = <<>>

NextUpload ==
  \/ UploadSteps
  \/ ListCall

SpecUpload == InitUpload /\ [][NextUpload]_vars

----------------------------------------------------------------------------
(* Two uploads under one name *)

\* the tree of A is uploaded under the name B, then the tree of B under the
\* same name
InitReupload ==
  /\ InitTrees
  /\ bdPath = <<>>
  /\ remote = <<>>
  /\ clock = 0
  /\ faults = MaxFaults
  /\ catalog = NoCatalog
  /\ rm = RmIdle
  /\ calls = <<UploadOp(SrcA, <<"B">>, <<>>), UploadOp(SrcB, <<"B">>, SrcA)>>
  /\ results = <<>>
  /\ up = UpIdle /\ pipe = NoPipe /\ put = PutIdle
  /\ stack = <<>> /\ dlRet = "none" /\ hist = <<>>

NextReupload == UploadSteps

SpecReupload == InitReupload /\ [][NextReupload]_vars

----------------------------------------------------------------------------
(* Downloads of a chain of archives *)

Dst == <<"dst">>

\* the relative paths of the data files of an archive
DataPaths == {<<"a">>, <<"d", "b">>}

\* what an archive does with a data path: nothing, an entry, a declared
\* hardlink, or both
Shapes == {"none", "entry", "link", "both"}

\* the archive of a backup: its entries in the order of the walk and, where
\* it declares hardlinks, the MetaFile entry that names the required backup,
\* after the first pos data entries (after all of them in an archive that
\* CompressedStreamUpload wrote)
ChainArchive(shape, required, d, pos) ==
  LET paths == SelectSeq(WalkOrder, LAMBDA rel : rel \in DataPaths)
      ents  == SelectSeq(paths, LAMBDA rel : shape[rel] \in {"entry", "both"})
      links == SelectSeq(paths, LAMBDA rel : shape[rel] \in {"link", "both"})
      files == [i \in 1..Len(ents) |-> FileItem(RelStr(ents[i]), Raw(1))]
      hl    == [i \in 1..Len(links) |-> RelStr(links[i])]
      meta  == IF hl = <<>> THEN <<>>
               ELSE <<FileItem(MetaFileName,
                               Marshal([RequiredBackup |-> required, Hardlinks |-> hl]))>>
      n     == IF pos < Len(files) THEN pos ELSE Len(files)
      all   == SubSeq(files, 1, n) \o meta \o SubSeq(files, n + 1, Len(files))
  IN [entries |-> all, size |-> Len(all) + 1, date |-> d]

\* the store holds the archives of C, of B and (or not) of the full backup
\* A, uploaded in this order
InitChainStore ==
  /\ bdPath = <<>>
  /\ \E hasA \in BOOLEAN :
       \E sa \in [DataPaths -> {"none", "entry"}] :
         \E sb \in [DataPaths -> Shapes] :
           \E sc \in [DataPaths -> Shapes] :
             \E pos \in 0..Cardinality(DataPaths) :
               /\ hasA = FALSE => \A rel \in DataPaths : sa[rel] = "none"
               /\ remote = [key \in {ArchiveName(<<>>, <<"B">>), ArchiveName(<<>>, <<"C">>)} \cup
                                    (IF hasA THEN {ArchiveName(<<>>, <<"A">>)} ELSE {}) |->
                              IF key = ArchiveName(<<>>, <<"A">>)
                              THEN ChainArchive(sa, <<>>, 1, Cardinality(DataPaths))
                              ELSE IF key = ArchiveName(<<>>, <<"B">>)
                              THEN ChainArchive(sb, <<"A">>, 2, Cardinality(DataPaths))
                              ELSE ChainArchive(sc, <<"B">>, 3, pos)]
  /\ clock = 3

\* the local side is empty, and C is downloaded
InitDownload ==
  /\ InitChainStore
  /\ faults = MaxFaults
  /\ catalog = NoCatalog
  /\ rm = RmIdle
  /\ fs = <<>> /\ idata = <<>> /\ dirs = {Dst}
  /\ calls = <<DownloadOp(<<"C">>, Dst \o <<"C">>)>>
  /\ results = <<>>
  /\ up = UpIdle /\ pipe = NoPipe /\ put = PutIdle
  /\ stack = <<>> /\ dlRet = "none" /\ hist = <<>>

NextDownload == DownloadSteps

SpecDownload == InitDownload /\ [][NextDownload]_vars

\* a call that can take a step takes it: the download runs in the thread of
\* its caller
SpecDownloadLive == SpecDownload /\ WF_vars(NextDownload)

----------------------------------------------------------------------------
(* Retention followed by a download *)

\* the old backups of the chain are removed, then C is downloaded
InitRetain ==
  /\ InitChainStore
  /\ faults = MaxFaults
  /\ catalog = NoCatalog
  /\ rm = RmIdle
  /\ fs = <<>> /\ idata = <<>> /\ dirs = {Dst}
  /\ \E keep \in 0..MaxKeep :
       calls = <<RemoveOp(keep), DownloadOp(<<"C">>, Dst \o <<"C">>)>>
  /\ results = <<>>
  /\ up = UpIdle /\ pipe = NoPipe /\ put = PutIdle
  /\ stack = <<>> /\ dlRet = "none" /\ hist = <<>>

NextRetain ==
  \/ \E keep \in 0..MaxKeep : RmCall(keep)
  \/ RmWalk
  \/ RmDelete
  \/ RmNext
  \/ RmReturn
  \/ DownloadSteps

SpecRetain == InitRetain /\ [][NextRetain]_vars

----------------------------------------------------------------------------
(* Uploads followed by downloads *)

\* A is uploaded in full, B as an increment of A and, as F, in full; then B
\* and F are downloaded
InitTransfer ==
  /\ InitTrees
  /\ bdPath = <<>>
  /\ remote = <<>>
  /\ clock = 0
  /\ faults = MaxFaults
  /\ catalog = NoCatalog
  /\ rm = RmIdle
  /\ calls = <<UploadOp(SrcA, <<"A">>, <<>>), UploadOp(SrcB, <<"B">>, SrcA),
               UploadOp(SrcB, <<"F">>, <<>>),
               DownloadOp(<<"B">>, Dst \o <<"B">>), DownloadOp(<<"F">>, Dst \o <<"F">>)>>
  /\ results = <<>>
  /\ up = UpIdle /\ pipe = NoPipe /\ put = PutIdle
  /\ stack = <<>> /\ dlRet = "none" /\ hist = <<>>

NextTransfer ==
  \/ UploadSteps
  \/ DownloadSteps

SpecTransfer == InitTransfer /\ [][NextTransfer]_vars

----------------------------------------------------------------------------
(* Claims about the catalog and retention *)

\* the parts BackupList splits a delivered key into
KeyParts(k) == Split(TrimPrefix(k, bdPath))

\* the candidate names of a set of delivered keys
Candidates(keys) == {KeyParts(k)[1] : k \in keys}

\* some key of the candidate n has the marker m as its next path segment
HasMarker(keys, n, m) ==
  \E k \in keys : KeyParts(k)[1] = n /\ Len(KeyParts(k)) > 1 /\ KeyParts(k)[2] = m

ListedNames(l) == {l[i].Name : i \in 1..Len(l)}

\* C8: after a BackupList without error, a candidate name of the delivered
\* keys is listed if and only if it has a metadata marker and a shadow
\* marker, or it carries a recognised single-archive extension.
C8_Classification ==
  catalog.err = "nil" =>
    \A n \in Candidates(catalog.keys) :
      n \in ListedNames(catalog.list) <=>
        \/ HasMarker(catalog.keys, n, <<"metadata">>) /\ HasMarker(catalog.keys, n, <<"shadow">>)
        \/ IsArchiveName(n)

\* the keys of the store that belong to the backups of the list l
KeysOfBackups(keys, l) == {k \in keys : KeyParts(k)[1] \in ListedNames(l)}

\* C10: when RemoveOldBackups(keep) returns nil, nothing is removed if
\* keep < 1 or the catalog holds M <= keep backups, and otherwise the keys
\* removed are exactly the keys of the M - keep oldest backups, so that the
\* keep most recent backups keep all their keys.
C10_Retention ==
  (rm.pc = "done" /\ rm.err = "nil") =>
    LET M == Len(rm.list)
    IN /\ (rm.keep < 1 \/ M <= rm.keep) => DOMAIN remote = rm.before
       /\ (rm.keep >= 1 /\ M > rm.keep) =>
            rm.before \ DOMAIN remote =
              KeysOfBackups(rm.before, SubSeq(rm.list, 1, M - rm.keep))

\* the place in the walk at which a name was seen first
FirstSeen(walk, n) ==
  CHOOSE i \in 1..Len(walk) :
    /\ KeyParts(walk[i])[1] = n
    /\ \A j \in 1..(i - 1) : KeyParts(walk[j])[1] # n

\* C19: the list BackupList returns is ascending by date, and of two
\* backups with the same date the one whose name the walk saw first comes
\* first
C19_SortedStable ==
  catalog.err = "nil" =>
    \A i \in 1..Len(catalog.list) : \A j \in 1..Len(catalog.list) :
      i < j =>
        /\ catalog.list[i].Date <= catalog.list[j].Date
        /\ catalog.list[i].Date = catalog.list[j].Date =>
             FirstSeen(catalog.walk, catalog.list[i].Name)
               < FirstSeen(catalog.walk, catalog.list[j].Name)

\* C20: of the keys bk1.tar, bk2/metadata/x, bk2/shadow/y and
\* bk3/metadata/x below the empty path, BackupList returns two backups,
\* named bk1 and bk2
C20_ScenarioCatalog ==
  catalog.err = "nil" =>
    /\ Len(catalog.list) = 2
    /\ ListedNames(catalog.list) = {<<"bk", "1">>, <<"bk", "2">>}

\* C11: when DeleteFile fails, RemoveOldBackups has returned that error:
\* the key that failed and the keys after it are still in the store, the
\* backup being removed and those after it are still to be deleted, and
\* the keys deleted before the failure are gone
C11_DeleteFailureStops ==
  rm.err = "delete" =>
    /\ rm.pc = "done"
    /\ rm.objects # <<>> /\ rm.todelete # <<>>
    /\ \A i \in 1..Len(rm.objects) : rm.objects[i] \in DOMAIN remote
    /\ DOMAIN remote = rm.before \ rm.deleted

\* a DeleteFile failed after a key of the same pass was deleted, with a
\* further backup still to be deleted
C11_Witness ==
  /\ rm.err = "delete" /\ rm.pc = "done"
  /\ rm.deleted # {}
  /\ Len(rm.todelete) >= 2

----------------------------------------------------------------------------
(* Claims about CompressedStreamUpload *)

Range(q) == {q[i] : i \in 1..Len(q)}

UploadResults == {r \in Range(results) : r.op = "upload"}

\* C1: when the producer stops with an error, the writer side of the pipe is
\* closed with that error, and an upload whose producer failed does not
\* return nil (PutFile saw an error, not a clean end of the stream).
C1_ProducerErrorForwarded ==
  /\ (up.pc = "done" /\ up.ferr # "nil") => (pipe.closed /\ pipe.err = up.ferr)
  /\ \A r \in UploadResults : r.ferr # "nil" => r.err # "nil"

\* the names of the tar entries that hold the bytes of a local file
DataNames(entries) ==
  {entries[i].name : i \in {j \in 1..Len(entries) : entries[j].data.kind # "meta"}}

\* C2: an upload returns nil only if every regular file under localRoot is
\* an entry of the archive stored under the archive key or is in the
\* hardlink list.
C2_NoTruncatedSuccess ==
  \A r \in UploadResults :
    r.err = "nil" =>
      /\ ArchiveName(bdPath, r.name) \in DOMAIN remote
      /\ \A rel \in Range(FilesUnder(fs, r.localPath)) :
           \/ RelStr(rel) \in DataNames(remote[ArchiveName(bdPath, r.name)].entries)
           \/ RelStr(rel) \in Range(r.hardlinks)

\* the relative paths under localPath that are the same file under diffFromPath
IdentityEqual(localPath, diffFromPath) ==
  {rel \in Range(FilesUnder(fs, localPath)) :
     (diffFromPath \o rel) \in DOMAIN fs /\ fs[localPath \o rel] = fs[diffFromPath \o rel]}

\* the tar entries the walk wrote
WalkEntries(items) == SelectSeq(items, LAMBDA it : it.t = "file" /\ it.data.kind # "meta")

WalkDone == up.pc \in {"zclose", "wclose", "done"} /\ up.ferr = "nil"

\* C4: when the walk of an upload with diffFromRoot has visited every file,
\* the hardlink list holds exactly the relative paths that are the same
\* physical file under diffFromRoot, each once, and the entries written are
\* exactly the other files, each once and with its content.
C4_HardlinkOrArchive ==
  (WalkDone /\ up.diffFromPath # <<>>) =>
    LET same == IdentityEqual(up.localPath, up.diffFromPath)
        rest == Range(FilesUnder(fs, up.localPath)) \ same
        ents == WalkEntries(up.written)
    IN /\ Range(up.hardlinks) = {RelStr(rel) : rel \in same}
       /\ Len(up.hardlinks) = Cardinality(same)
       /\ {[name |-> e.name, data |-> e.data] : e \in Range(ents)} =
            {[name |-> RelStr(rel), data |-> idata[fs[up.localPath \o rel]]] : rel \in rest}
       /\ Len(ents) = Cardinality(rest)

\* C4 witness: a finished walk that put one file into the hardlink list and
\* archived another one whose bytes equal those of the file at the same
\* path under diffFromRoot, which is a different file.
C4_Witness ==
  /\ WalkDone /\ up.diffFromPath # <<>>
  /\ Len(up.hardlinks) > 0
  /\ \E rel \in RelPaths :
       /\ (up.localPath \o rel) \in DOMAIN fs
       /\ (up.diffFromPath \o rel) \in DOMAIN fs
       /\ fs[up.localPath \o rel] # fs[up.diffFromPath \o rel]
       /\ idata[fs[up.localPath \o rel]] = idata[fs[up.diffFromPath \o rel]]
       /\ \E e \in Range(WalkEntries(up.written)) : e.name = RelStr(rel)

\* the positions of the MetaFile entries among the entries of a stream
MetaPositions(ents) == {i \in 1..Len(ents) : ents[i].data.kind = "meta"}

\* C15: at no time does anything but the trailer follow a MetaFile entry in
\* the stream; when the producer has passed the walk and the MetaFile step
\* without error, the stream holds a MetaFile entry exactly if a hardlink
\* was recorded, it holds one at most, that entry is the last entry and is
\* named meta.json, its requiredBackup is the last element of diffFromPath
\* and its hardlinks are the identity-equal files in the order of the walk
C15_MetaFileLast ==
  /\ \A i \in 1..Len(up.written) :
       up.written[i].data.kind = "meta" =>
         \A j \in (i + 1)..Len(up.written) : up.written[j].t = "end"
  /\ WalkDone =>
       LET ents == Entries(up.written)
           same == SelectSeq(FilesUnder(fs, up.localPath),
                             LAMBDA rel : rel \in IdentityEqual(up.localPath, up.diffFromPath))
       IN /\ (Len(up.hardlinks) > 0) <=> (MetaPositions(ents) # {})
          /\ MetaPositions(ents) \subseteq {Len(ents)}
          /\ MetaPositions(ents) # {} =>
               /\ ents[Len(ents)].name = <<"meta.json">>
               /\ ents[Len(ents)].data.rb = <<up.diffFromPath[Len(up.diffFromPath)]>>
               /\ ents[Len(ents)].data.hl = up.hardlinks
               /\ up.hardlinks = [i \in 1..Len(same) |-> RelStr(same[i])]

\* the producer ended without error after it wrote a data entry and then
\* the MetaFile entry with two hardlinks
C15_Witness ==
  /\ up.pc = "done" /\ up.ferr = "nil"
  /\ Len(up.hardlinks) = 2
  /\ Len(Entries(up.written)) >= 2
  /\ MetaPositions(Entries(up.written)) = {Len(Entries(up.written))}

\* C16: where nothing failed in the environment, a stored archive holds at
\* most one entry named meta.json, and that entry is the MetaFile the
\* upload marshalled, never a data file of the source tree
C16_ReservedEntryName ==
  faults = MaxFaults =>
    \A k \in DOMAIN remote :
      LET named == {i \in 1..Len(remote[k].entries) :
                      remote[k].entries[i].name = <<"meta.json">>}
      IN /\ Cardinality(named) <= 1
         /\ \A i \in named : remote[k].entries[i].data.kind = "meta"

\* C9: a name that BackupList lists is the archive of an upload that ran to
\* completion: its producer finished without error and it returned nil.
C9_NoPartialBackupListed ==
  catalog.err = "nil" =>
    \A n \in ListedNames(catalog.list) :
      \E r \in UploadResults :
        /\ n = r.name \o Ext
        /\ r.err = "nil"
        /\ r.ferr = "nil"

\* C13: where nothing failed in the environment, the producer is started
\* and PutFile is called only after the probe of the archive key reported
\* that the key is absent
C13_UploadOnlyToAbsentKey ==
  (faults = MaxFaults /\ put.pc # "idle") => put.probe = "notfound"

----------------------------------------------------------------------------
(* Claims about CompressedStreamDownload *)

DownloadResults == {r \in Range(results) : r.op = "download"}

\* the MetaFile the stored archive of a backup declares
Declared(name) ==
  LET key == ArchiveName(bdPath, name)
      ms  == IF key \in DOMAIN remote
             THEN SelectSeq(remote[key].entries,
                            LAMBDA e : e.name = MetaFileName /\ e.data.kind = "meta")
             ELSE <<>>
  IN IF ms = <<>> THEN NoMetaFile
     ELSE [RequiredBackup |-> ms[Len(ms)].data.rb, Hardlinks |-> ms[Len(ms)].data.hl]

\* a backup and the backups it requires, directly or not
RECURSIVE Chain(_, _)
Chain(name, depth) ==
  IF name = <<>> \/ depth = 0 THEN {}
  ELSE {name} \cup Chain(Declared(name).RequiredBackup, depth - 1)

C7_NoSkippedHardlink ==
  \A r \in DownloadResults :
    LET mf == Declared(r.name)
    IN /\ (\E h \in Range(mf.Hardlinks) :
             (Dir(r.localPath) \o Segs(mf.RequiredBackup) \o Segs(h)) \notin DOMAIN fs)
          => r.err # "nil"
       /\ r.err = "nil" =>
            \A h \in Range(mf.Hardlinks) : (r.localPath \o Segs(h)) \in DOMAIN fs

\* the required backup was downloaded, a declared path is not in its
\* directory, the link was attempted and the download returned the error
C7_Witness ==
  \E r \in DownloadResults :
    /\ r.err = "other"
    /\ \E i \in 1..Len(hist) :
         /\ hist[i].ev = "link" /\ hist[i].at = r.localPath /\ hist[i].err = "other"
         /\ hist[i].src \notin DOMAIN fs
         /\ \E j \in 1..(i - 1) : hist[j].ev = "ret" /\ hist[j].err = "nil"

\* the MetaFile that the entries named meta.json among the first n entries
\* of an archive hold
MetaOfPrefix(entries, n) ==
  LET ms == SelectSeq(SubSeq(entries, 1, n),
                      LAMBDA e : e.name = MetaFileName /\ e.data.kind = "meta")
  IN IF ms = <<>> THEN NoMetaFile
     ELSE [RequiredBackup |-> ms[Len(ms)].data.rb, Hardlinks |-> ms[Len(ms)].data.hl]

\* the data entries of the stored archive of a backup
DataEntries(name) ==
  IF ArchiveName(bdPath, name) \in DOMAIN remote
  THEN SelectSeq(remote[ArchiveName(bdPath, name)].entries,
                 LAMBDA e : e.name # MetaFileName)
  ELSE <<>>

\* C14: no entry named meta.json is written as a file; the MetaFile of a
\* running download is what the entries named meta.json that were read so
\* far hold, whatever their position; a download waits for its parent or
\* links, and a nested download runs, only when every entry has been read,
\* and every link attempt of a level comes after the extraction of all the
\* data entries of its archive
C14_MetaFileParsedNotExtracted ==
  /\ \A i \in 1..Len(hist) :
       /\ hist[i].ev = "create" => hist[i].path # hist[i].at \o MetaFileName
       /\ hist[i].ev = "link" =>
            Cardinality({c \in 1..(i - 1) :
                           hist[c].ev = "create" /\ hist[c].at = hist[i].at})
              = Len(DataEntries(Base(hist[i].at)))
  /\ \A n \in 1..Len(stack) :
       /\ stack[n].pc \in {"wait", "link"} => stack[n].j = Len(stack[n].entries) + 1
       /\ stack[n].pc # "open" =>
            stack[n].metafile = MetaOfPrefix(stack[n].entries, stack[n].j - 1)
       /\ n < Len(stack) => stack[n].pc = "wait"

\* the archive of C holds its MetaFile entry first and a data entry after
\* it; the download returned nil, extracted the data entry, made a link and
\* left no file meta.json
C14_Witness ==
  \E r \in DownloadResults :
    LET es == remote[ArchiveName(bdPath, r.name)].entries
    IN /\ r.err = "nil" /\ r.name = <<"C">>
       /\ Len(es) >= 2 /\ es[1].name = MetaFileName
       /\ \E i \in 1..Len(hist) : \E j \in 1..Len(hist) :
            /\ i < j
            /\ hist[i].ev = "create" /\ hist[i].at = r.localPath
            /\ hist[j].ev = "link" /\ hist[j].at = r.localPath /\ hist[j].err = "nil"
       /\ (r.localPath \o MetaFileName) \notin DOMAIN fs

\* a backup and the backups it requires, the newest first
RECURSIVE ChainSeq(_, _)
ChainSeq(name, depth) ==
  IF name = <<>> \/ depth = 0 THEN <<>>
  ELSE <<name>> \o ChainSeq(Declared(name).RequiredBackup, depth - 1)

\* the archive keys the downloads asked the store for, in order
Fetched ==
  LET opens == SelectSeq(hist, LAMBDA e : e.ev = "open")
  IN [i \in 1..Len(opens) |-> opens[i].src]

\* the archive keys of the chain of C, the newest first
ChainKeys ==
  LET c == ChainSeq(<<"C">>, 4)
  IN [i \in 1..Len(c) |-> ArchiveName(bdPath, c[i])]

FetchesFollowChain ==
  /\ Len(Fetched) <= Len(ChainKeys)
  /\ Fetched = SubSeq(ChainKeys, 1, Len(Fetched))
  /\ Len(stack) <= Len(ChainKeys)
  /\ \A r \in DownloadResults : r.err = "nil" => Fetched = ChainKeys

\* C18: the download of C asks the store for the archives of its chain, one
\* after the other from the newest to the oldest, each once and no other,
\* nests no deeper than the chain is long, has asked for every member when
\* it returns nil, and returns
C18_OneFetchPerChainMember ==
  /\ []FetchesFollowChain
  /\ <>(stack = <<>> /\ calls = <<>> /\ results # <<>>)

\* the download of C returned nil after it fetched C, B and A in this order
C18_Witness ==
  /\ \E r \in DownloadResults : r.err = "nil" /\ r.name = <<"C">>
  /\ Fetched = <<ArchiveName(bdPath, <<"C">>), ArchiveName(bdPath, <<"B">>),
                 ArchiveName(bdPath, <<"A">>)>>
  /\ stack = <<>>

----------------------------------------------------------------------------
(* Claims about retention and the chain of required backups *)

\* C12: a pass of RemoveOldBackups(keep) that returns nil has deleted the
\* keys of every backup of its list but the keep most recent, whether or not
\* the MetaFile of a retained archive names one of them as its required
\* backup; a later download whose chain holds a deleted archive returns an
\* error
C12_RetentionIgnoresChain ==
  (rm.pc = "done" /\ rm.err = "nil" /\ rm.keep >= 1) =>
    /\ \A i \in 1..(Len(rm.list) - rm.keep) :
         \A k \in rm.before :
           MatchesBackup(k, bdPath, rm.list[i].Name) => k \notin DOMAIN remote
    /\ \A r \in DownloadResults :
         (\E n \in Chain(r.name, 3) : ArchiveName(bdPath, n) \in rm.deleted)
           => r.err # "nil"

\* the pass kept the archive of C and deleted the archive of B, which the
\* MetaFile of C names, and the download of C returned an error
C12_Witness ==
  /\ rm.pc = "done" /\ rm.err = "nil" /\ rm.keep >= 1
  /\ ArchiveName(bdPath, <<"C">>) \in DOMAIN remote
  /\ Declared(<<"C">>).RequiredBackup = <<"B">>
  /\ ArchiveName(bdPath, <<"B">>) \in rm.deleted
  /\ \E r \in DownloadResults : r.name = <<"C">> /\ r.err = "other"
  /\ faults = MaxFaults
  /\ \E i \in 1..Len(hist) :
       hist[i].ev = "ret" /\ hist[i].at = Dst \o <<"B">> /\ hist[i].err = "other"

----------------------------------------------------------------------------
(* Claims about an upload followed by a download *)

\* no step of a transfer has failed in the transport or the filesystem
NoFault == faults = MaxFaults

\* C17: where nothing failed in the environment, every MetaFile entry an
\* upload wrote, and the MetaFile of every running download of an uploaded
\* archive, names a required backup if it lists a hardlink
C17_HardlinksNeedRequired ==
  NoFault =>
    /\ \A i \in 1..Len(up.written) :
         (up.written[i].data.kind = "meta" /\ up.written[i].data.hl # <<>>)
           => up.written[i].data.rb # <<>>
    /\ \A n \in 1..Len(stack) :
         stack[n].metafile.Hardlinks # <<>> => stack[n].metafile.RequiredBackup # <<>>

\* C3: where nothing failed in the environment, the download of a tree
\* that was uploaded in full returns nil and leaves, under its localPath,
\* the relative paths of the source tree with the contents of the source
\* tree
C3_RoundTrip ==
  NoFault =>
    \A r \in DownloadResults :
      r.name = <<"F">> =>
        /\ r.err = "nil"
        /\ Tree(fs, idata, r.localPath) = Tree(fs, idata, SrcB)

\* C5: where nothing failed in the environment, the download of B, uploaded
\* as an increment of A, ends as the download of the full archive of the
\* tree of B ends, with the same relative paths and contents under its
\* localPath
C5_IncrementEqualsFull ==
  NoFault =>
    \A rB \in DownloadResults : \A rF \in DownloadResults :
      (rB.name = <<"B">> /\ rF.name = <<"F">>) =>
        /\ rB.err = rF.err
        /\ Tree(fs, idata, rB.localPath) = Tree(fs, idata, rF.localPath)

----------------------------------------------------------------------------
(* The buffers of an upload and of a download *)

\* two trees of fixed content: a of B is a hard link to a of A or a file of
\* its own, d/b is a file of B alone; A is uploaded, B is uploaded as an
\* increment of A, and B is downloaded
InitBuffer ==
  /\ \E linked \in BOOLEAN :
       fs = (SrcA \o <<"a">> :> 1) @@ (SrcB \o <<"a">> :> IF linked THEN 1 ELSE 2) @@
            (SrcB \o <<"d", "b">> :> 3)
  /\ idata = [i \in {fs[q] : q \in DOMAIN fs} |-> Raw(1)]
  /\ dirs = {<<"src">>, SrcA, SrcB, SrcB \o <<"d">>}
  /\ bdPath = <<>>
  /\ remote = <<>>
  /\ clock = 0
  /\ faults = MaxFaults
  /\ catalog = NoCatalog
  /\ rm = RmIdle
  /\ calls = <<UploadOp(SrcA, <<"A">>, <<>>), UploadOp(SrcB, <<"B">>, SrcA),
               DownloadOp(<<"B">>, Dst \o <<"B">>)>>
  /\ results = <<>>
  /\ up = UpIdle /\ pipe = NoPipe /\ put = PutIdle
  /\ stack = <<>> /\ dlRet = "none" /\ hist = <<>>

NextBuffer ==
  \/ UploadSteps
  \/ DownloadSteps

SpecBuffer == InitBuffer /\ [][NextBuffer]_vars

\* the producer of the upload has an item to write
ProducerWrites == up.pc \in {"walk", "zclose"}

\* C21: the buffer between the producer and the consumer of an upload, and
\* the read buffer of a download, never hold more than their capacity; while
\* a buffer is full nothing is written into it, and while it is empty and
\* the end of the stream was not signalled nothing is read from it
C21_BoundedBuffer ==
  /\ [](/\ Len(pipe.buf) <= PipeCap
        /\ \A n \in DOMAIN stack : Buffered(stack[n]) <= PipeCap)
  /\ [][/\ Len(pipe.buf) = PipeCap => Len(up'.written) <= Len(up.written)
        /\ (pipe.buf = <<>> /\ ~pipe.closed) =>
             (Len(put'.data) <= Len(put.data) /\ remote' = remote)
        /\ \A n \in DOMAIN stack \cap DOMAIN stack' :
             /\ Buffered(stack[n]) = PipeCap => stack'[n].fill = stack[n].fill
             /\ (stack[n].pc = "read" /\ Buffered(stack[n]) = 0
                 /\ stack[n].fill < Len(stack[n].entries)) =>
                  stack'[n].j = stack[n].j]_vars

\* the buffer of an upload is full while its producer has an item to write
C21_Witness ==
  /\ Len(pipe.buf) = PipeCap
  /\ ProducerWrites
  /\ put.pc = "read"
  /\ up.written # <<>>

----------------------------------------------------------------------------
(* A download into directories that are not empty *)

\* the local side holds, or not, the file a in the directory of B, left by
\* an earlier download; C is downloaded
InitExisting ==
  /\ InitChainStore
  /\ faults = MaxFaults
  /\ catalog = NoCatalog
  /\ rm = RmIdle
  /\ \E pre \in BOOLEAN :
       IF pre
       THEN /\ fs = (Dst \o <<"B", "a">> :> 1)
            /\ idata = (1 :> Raw(1))
            /\ dirs = {Dst, Dst \o <<"B">>}
       ELSE fs = <<>> /\ idata = <<>> /\ dirs = {Dst}
  /\ calls = <<DownloadOp(<<"C">>, Dst \o <<"C">>)>>
  /\ results = <<>>
  /\ up = UpIdle /\ pipe = NoPipe /\ put = PutIdle
  /\ stack = <<>> /\ dlRet = "none" /\ hist = <<>>

NextExisting == DownloadSteps

SpecExisting == InitExisting /\ [][NextExisting]_vars

\* the directory of a backup holds every data entry and every declared
\* hardlink of its archive
Materialised(name, dir) ==
  LET key == ArchiveName(bdPath, name)
  IN /\ key \in DOMAIN remote
     /\ \A i \in DOMAIN remote[key].entries :
          remote[key].entries[i].name # MetaFileName =>
            (dir \o Segs(remote[key].entries[i].name)) \in DOMAIN fs
     /\ \A h \in Range(Declared(name).Hardlinks) : (dir \o Segs(h)) \in DOMAIN fs

\* C22: a download returns nil only if no download of a backup it requires
\* returned an error, and then the directory of every backup of its chain
\* holds all that its archive declares
C22_ParentErrorPropagates ==
  \A r \in DownloadResults :
    r.err = "nil" =>
      /\ \A i \in 1..Len(hist) : hist[i].ev = "ret" => hist[i].err = "nil"
      /\ \A n \in Chain(r.name, 3) : Materialised(n, Dir(r.localPath) \o Segs(n))

----------------------------------------------------------------------------
(* The producer of an upload after the upload has returned *)

\* the steps of the goroutine of the producer
Producer ==
  \/ ProdCreate
  \/ ProdVisit
  \/ ProdMeta
  \/ ProdZClose
  \/ ProdExit

\* the steps of PutFile that no failure of the transport causes
Consumer ==
  \/ PutRead
  \/ PutEnd

\* the scheduler runs a goroutine that can take a step, and PutFile, in the
\* thread of the caller, reads on while it can
SpecUploadLive == SpecUpload /\ WF_vars(Producer) /\ WF_vars(Consumer)

\* C23: once CompressedStreamUpload has returned from PutFile, with nil or
\* with an error, the producer has ended or ends later on
C23_ProducerEnds == (put.pc = "done") ~> (up.pc = "done")

----------------------------------------------------------------------------
(* The catalog and the order of the walk, the prefix, the dates *)

\* the backups of a list, without their order
Backups(l) == {l[i] : i \in 1..Len(l)}

\* C24: the backups BackupList returns for a store are those it returns for
\* every other order in which the walk can deliver the same objects
C24_WalkOrderIndependent ==
  (catalog.err = "nil" /\ catalog.keys = WalkKeys(remote, bdPath)) =>
    \A w \in Walks(remote, bdPath) :
      \A l \in BackupLists(WalkFiles(<<>>, w, bdPath)) :
        Backups(l) = Backups(catalog.list)

\* a key of the backup called name: the object of that name below the path,
\* or an object below it
Belongs(k, name) ==
  \/ k = PathJoin(bdPath, name)
  \/ HasPrefix(k, PathJoin(bdPath, name) \o <<Slash>>)

\* C25: the keys RemoveBackup(name) collects for deletion, and deletes, are
\* keys of the backup called name
C25_RemoveOnlyOwnKeys ==
  rm.pc = "delete" =>
    \A i \in 1..Len(rm.objects) : Belongs(rm.objects[i], Head(rm.todelete).Name)

----------------------------------------------------------------------------
(* A download from a store whose MetaFiles name each other *)

\* the store holds the archives of B and of C; the MetaFile of C names B,
\* and the MetaFile of B names B itself or C
InitCycle ==
  /\ bdPath = <<>>
  /\ \E req \in {<<"B">>, <<"C">>} :
       \E sb \in [DataPaths -> {"entry", "link"}] :
         \E sc \in [DataPaths -> {"entry", "link"}] :
           remote = (ArchiveName(<<>>, <<"B">>) :>
                       ChainArchive(sb, req, 1, Cardinality(DataPaths))) @@
                    (ArchiveName(<<>>, <<"C">>) :>
                       ChainArchive(sc, <<"B">>, 2, Cardinality(DataPaths)))
  /\ clock = 2
  /\ faults = MaxFaults
  /\ catalog = NoCatalog
  /\ rm = RmIdle
  /\ fs = <<>> /\ idata = <<>> /\ dirs = {Dst}
  /\ calls = <<DownloadOp(<<"C">>, Dst \o <<"C">>)>>
  /\ results = <<>>
  /\ up = UpIdle /\ pipe = NoPipe /\ put = PutIdle
  /\ stack = <<>> /\ dlRet = "none" /\ hist = <<>>

NextCycle == DownloadSteps

SpecCycle == InitCycle /\ [][NextCycle]_vars

\* C26: a download comes to an end whatever the store holds: no download of
\* a backup is started inside the download of that same backup, which would
\* start it again and again
C26_NoNestedRepeat ==
  \A m \in DOMAIN stack : \A n \in DOMAIN stack :
    m < n => stack[m].remotePath # stack[n].remotePath

----------------------------------------------------------------------------
(* The read streams of a chain download *)

\* the calls on the stack whose read stream is open: the deferred
\* reader.Close() of a call runs when the call returns
OpenReaders == {n \in DOMAIN stack : stack[n].reader = "open"}

\* C27: at most one remote read stream is open at any time of a download
C27_OneOpenReader == Cardinality(OpenReaders) <= 1

----------------------------------------------------------------------------
(* The end of the stream of an upload *)

\* C28: when the producer met no error, the write side of the pipe is closed
\* only after the encoder has written its trailer, all that the producer
\* wrote reaches the consumer in order, and a consumer that has seen the end
\* of the stream has read every item, the trailer last
C28_TrailerBeforeClose ==
  (up.ferr = "nil" /\ pipe.closed) =>
    /\ up.written # <<>>
    /\ up.written[Len(up.written)] = Trailer
    /\ put.data \o pipe.buf = up.written
    /\ (put.pc = "done" /\ \E r \in UploadResults : r.err = "nil") =>
         put.data = up.written

\* an upload without error has ended: the consumer has read a data entry
\* and the trailer
C28_Witness ==
  /\ up.ferr = "nil" /\ pipe.closed /\ put.pc = "done"
  /\ \E r \in UploadResults : r.err = "nil"
  /\ Len(put.data) >= 2
  /\ put.data[Len(put.data)] = Trailer

----------------------------------------------------------------------------
(* The catalog below a path prefix *)

\* a key without the path prefix and the separator that follows it
Relative(k) ==
  LET t == TrimPrefix(k, bdPath)
  IN IF t # <<>> /\ t[1] = Slash THEN Tail(t) ELSE t

\* the objects below the path prefix, as a store with an empty path prefix
\* holds them
RelativeStore ==
  [n \in {Relative(k) : k \in WalkKeys(remote, bdPath)} |->
     remote[CHOOSE k \in WalkKeys(remote, bdPath) : Relative(k) = n]]

\* C29: below any path prefix, with or without a separator at its end, the
\* names BackupList returns are those it returns for the same objects below
\* an empty path prefix, in some order of the walk
C29_PrefixIndependent ==
  (catalog.err = "nil" /\ catalog.keys = WalkKeys(remote, bdPath)) =>
    \E w \in Walks(RelativeStore, <<>>) :
      \E l \in BackupLists(WalkFiles(<<>>, w, <<>>)) :
        ListedNames(l) = ListedNames(catalog.list)

----------------------------------------------------------------------------
(* The date and the size of a listed backup *)

\* C30: every backup BackupList returns carries the last-modified time and
\* the size of an object stored under the name of the backup
C30_DateOfAnObject ==
  catalog.err = "nil" =>
    \A b \in Backups(catalog.list) :
      \E k \in DOMAIN remote :
        /\ Belongs(k, b.Name)
        /\ b.Date = remote[k].date
        /\ b.Size = remote[k].size

----------------------------------------------------------------------------
(* A download of archives whose names lead out of their directory *)

\* the names an entry or a hardlink of an archive can carry
EntryNames ==
  {<<"a">>, <<"..", Slash, "x">>, <<"..", Slash, "..", Slash, "x">>}

\* the names a MetaFile can give its required backup
RequiredNames == {<<"B">>, <<"..", Slash, "B">>}

\* the store holds the archive of C, with one data entry and, or not, a
\* MetaFile that names a required backup and one hardlink, and the archive
\* of that required backup, with one data entry; C is downloaded into /dst/C
InitTraversal ==
  /\ bdPath = <<>>
  /\ \E ec \in EntryNames : \E eb \in EntryNames : \E rb \in RequiredNames :
       \E hl \in {<<>>} \cup {<<h>> : h \in EntryNames} :
         remote = (ArchiveName(<<>>, <<"C">>) :>
                     [entries |-> <<FileItem(ec, Raw(1))>> \o
                                  (IF hl = <<>> THEN <<>>
                                   ELSE <<FileItem(MetaFileName,
                                            Marshal([RequiredBackup |-> rb,
                                                     Hardlinks |-> hl]))>>),
                      size |-> 2, date |-> 2]) @@
                  (ArchiveName(<<>>, rb) :>
                     [entries |-> <<FileItem(eb, Raw(1))>>, size |-> 2, date |-> 1])
  /\ clock = 2
  /\ faults = MaxFaults
  /\ catalog = NoCatalog
  /\ rm = RmIdle
  /\ fs = <<>> /\ idata = <<>> /\ dirs = {Dst}
  /\ calls = <<DownloadOp(<<"C">>, Dst \o <<"C">>)>>
  /\ results = <<>>
  /\ up = UpIdle /\ pipe = NoPipe /\ put = PutIdle
  /\ stack = <<>> /\ dlRet = "none" /\ hist = <<>>

NextTraversal == DownloadSteps

SpecTraversal == InitTraversal /\ [][NextTraversal]_vars

\* the path q lies inside the directory d
Inside(q, d) == Len(q) > Len(d) /\ SubSeq(q, 1, Len(d)) = d

\* the directories a download into localRoot may write into: localRoot and
\* the directories beside it that carry the name of a backup it downloaded
Roots(localRoot) ==
  {localRoot} \cup
  {hist[i].at : i \in {j \in 1..Len(hist) :
                         /\ hist[j].ev = "open"
                         /\ Len(hist[j].at) = Len(localRoot)
                         /\ Dir(hist[j].at) = Dir(localRoot)}}

\* C31: every file a download creates, by extraction or by a hard link,
\* lies inside its localRoot or inside the directory of a backup of its
\* chain beside localRoot
C31_CreatedInsideRoots ==
  \A i \in 1..Len(hist) :
    (hist[i].ev \in {"create", "link"} /\ hist[i].err = "nil") =>
      \E d \in Roots(Dst \o <<"C">>) : Inside(hist[i].path, d)

============================================================================
